---- MODULE Spec2Model ----
(***************************************************************************)
(* A model of the task-dispatch, validation, code-block and command-gate   *)
(* core of GenerativeAIApp (src/GenerativeAIApp.py).                       *)
(*                                                                         *)
(* Text is a sequence of one-character strings, so that strip(), the       *)
(* sensitive-word regex and the substring denylist are computed as the     *)
(* code computes them.  The consuming (UI) thread is the record ui: it     *)
(* runs one handler at a time; worker threads are the task records.        *)
(***************************************************************************)
EXTENDS Integers, Sequences, FiniteSets, TLC

(***************************************************************************)
(* Characters and text helpers                                             *)
(***************************************************************************)
UpperSeq == <<"A","B","C","D","E","F","G","H","I","J","K","L","M",
              "N","O","P","Q","R","S","T","U","V","W","X","Y","Z">>
LowerSeq == <<"a","b","c","d","e","f","g","h","i","j","k","l","m",
              "n","o","p","q","r","s","t","u","v","w","x","y","z">>
Digits == {"0","1","2","3","4","5","6","7","8","9"}

Range(s) == {s[i] : i \in DOMAIN s}

\* str.isspace for the characters of the model's alphabet
IsSpace(c) == c \in {" ", "\n", "\t", "\r"}

\* the regex class \w (what \b is defined by)
IsWordChar(c) == c \in Range(UpperSeq) \cup Range(LowerSeq) \cup Digits \cup {"_"}

\* one character under re.I / str.lower()
LowerChar(c) ==
    IF c \in Range(UpperSeq)
    THEN LowerSeq[CHOOSE i \in DOMAIN UpperSeq : UpperSeq[i] = c]
    ELSE c

\* str.lower()
Lower(s) == [i \in DOMAIN s |-> LowerChar(s[i])]

\* str.strip(): drop the leading and the trailing whitespace
Strip(s) ==
    LET n == Len(s)
        nonsp == {i \in 1..n : ~IsSpace(s[i])}
    IN  IF nonsp = {} THEN <<>>
        ELSE LET lo == CHOOSE i \in nonsp : \A j \in 1..(i-1) : IsSpace(s[j])
                 hi == CHOOSE i \in nonsp : \A j \in (i+1)..n : IsSpace(s[j])
             IN  SubSeq(s, lo, hi)

\* pat occurs in s at position i (case-sensitive)
OccursAt(pat, s, i) ==
    /\ i >= 1
    /\ i + Len(pat) - 1 <= Len(s)
    /\ \A j \in 1..Len(pat) : s[i + j - 1] = pat[j]

\* the Python test  pat in s
Contains(s, pat) == \E i \in 1..(Len(s) - Len(pat) + 1) : OccursAt(pat, s, i)

\* n copies of the character c
Rep(c, n) == [i \in 1..n |-> c]

(***************************************************************************)
(* validate_input                                                          *)
(***************************************************************************)
MinLen == 10
MaxLen == 5000

SensitiveWords == { <<"p","a","s","s","w","o","r","d">>,
                    <<"s","e","c","r","e","t">>,
                    <<"k","e","y">> }

\* \b(w)\b matches at position i of text under re.I
WordAt(w, text, i) ==
    /\ i + Len(w) - 1 <= Len(text)
    /\ \A j \in 1..Len(w) : LowerChar(text[i + j - 1]) = w[j]
    /\ (i = 1 \/ ~IsWordChar(text[i - 1]))
    /\ (i + Len(w) > Len(text) \/ ~IsWordChar(text[i + Len(w)]))

\* re.search(r'\b(password|secret|key)\b', text, re.I)
SensitiveSearch(text) ==
    \E i \in 1..Len(text) : \E w \in SensitiveWords : WordAt(w, text, i)

NoError == [exc |-> "none", msg |-> ""]

\* validate_input measuring the entry as typed, without strip()
validate_input_NoStrip(entry) ==
    LET text == entry
    IN  IF Len(text) < MinLen
        THEN [exc |-> "ValueError", msg |-> "Query too short (minimum 10 characters)"]
        ELSE IF Len(text) > MaxLen
        THEN [exc |-> "ValueError", msg |-> "Query too long (maximum 5000 characters)"]
        ELSE IF SensitiveSearch(text)
        THEN [exc |-> "SecurityError", msg |-> "Query contains sensitive keywords"]
        ELSE NoError

\* validate_input with the pattern searched without re.I
validate_input_CaseSensitive(entry) ==
    LET text == Strip(entry)
    IN  IF Len(text) < MinLen
        THEN [exc |-> "ValueError", msg |-> "Query too short (minimum 10 characters)"]
        ELSE IF Len(text) > MaxLen
        THEN [exc |-> "ValueError", msg |-> "Query too long (maximum 5000 characters)"]
        ELSE IF \E i \in 1..Len(text) : \E w \in SensitiveWords :
                    /\ OccursAt(w, text, i)
                    /\ (i = 1 \/ ~IsWordChar(text[i - 1]))
                    /\ (i + Len(w) > Len(text) \/ ~IsWordChar(text[i + Len(w)]))
        THEN [exc |-> "SecurityError", msg |-> "Query contains sensitive keywords"]
        ELSE NoError

validate_input(entry) ==
    LET text == Strip(entry)
    IN  IF Len(text) < MinLen
        THEN [exc |-> "ValueError", msg |-> "Query too short (minimum 10 characters)"]
        ELSE IF Len(text) > MaxLen
        THEN [exc |-> "ValueError", msg |-> "Query too long (maximum 5000 characters)"]
        ELSE IF SensitiveSearch(text)
        THEN [exc |-> "SecurityError", msg |-> "Query contains sensitive keywords"]
        ELSE NoError

(***************************************************************************)
(* The command gate of execute_safe_command                                *)
(***************************************************************************)
unsafe_patterns == { <<"r","m"," ">>,
                     <<"d","e","l"," ">>,
                     <<"f","o","r","m","a","t"," ">>,
                     <<"c","h","m","o","d">>,
                     <<"s","u","d","o">> }

\* any(p in command for p in unsafe_patterns)
Blocked(command) == \E p \in unsafe_patterns : Contains(command, p)

(***************************************************************************)
(* extract_code_blocks                                                     *)
(***************************************************************************)
Min(S) == CHOOSE x \in S : \A y \in S : x <= y

\* the grave accent: the parser does not take it inside a string literal, so
\* the character is written by name
Grave == "grave"
Fence == <<Grave, Grave, Grave>>
NL == <<"\n">>
TagPython == <<"p","y","t","h","o","n">>
TagJavascript == <<"j","a","v","a","s","c","r","i","p","t">>
TagHtml == <<"h","t","m","l">>
TagCss == <<"c","s","s">>
TagBash == <<"b","a","s","h">>

\* re.findall of the pattern  fence tag \s* lazy-group \s* fence  under re.DOTALL,
\* scanning from position from: the leftmost opening fence+tag, the greedy \s*,
\* the lazy group up to the whitespace run that precedes the next fence, then
\* on from after that fence
RECURSIVE FindAllFrom(_, _, _)
FindAllFrom(tag, text, from) ==
    LET open == Fence \o tag
        starts == {i \in from..Len(text) : OccursAt(open, text, i)}
    IN  IF starts = {} THEN <<>>
        ELSE
          LET a == Min(starts) + Len(open)
              closes == {c \in a..Len(text) : OccursAt(Fence, text, c)}
          IN  IF closes = {} THEN <<>>
              ELSE
                LET c == Min(closes)
                    b == Min({j \in a..c : ~IsSpace(text[j])})
                    e == Min({j \in b..c : \A m \in j..(c-1) : IsSpace(text[m])})
                IN  <<SubSeq(text, b, e - 1)>> \o FindAllFrom(tag, text, c + Len(Fence))

\* the dict of extract_code_blocks, in its insertion (= iteration) order
extract_code_blocks(text) ==
    [python     |-> FindAllFrom(TagPython, text, 1),
     javascript |-> FindAllFrom(TagJavascript, text, 1),
     html       |-> FindAllFrom(TagHtml, text, 1),
     css        |-> FindAllFrom(TagCss, text, 1),
     bash       |-> FindAllFrom(TagBash, text, 1)]

(***************************************************************************)
(* process_code_blocks: the pure parts                                     *)
(***************************************************************************)
\* os.path.join(os.path.expanduser("~"), "Desktop") in the modelled environment
DesktopPath == <<"/","h","o","m","e","/","u","s","e","r","/","D","e","s","k","t","o","p">>
CodeStem == <<"/","c","o","d","e","_">>
PythonCmd == <<"p","y","t","h","o","n"," ","\"">>
BashCmd == <<"b","a","s","h"," ","\"">>
Echo == <<"$"," ">>
PreviewLine == <<"L","i","v","e"," ","p","r","e","v","i","e","w"," ","u","p","d","a","t","e","d"," ","w","i","t","h"," ","w","e","b"," ","c","o","d","e",".">>

DigitSeq == <<"0","1","2","3","4","5","6","7","8","9">>

\* str(n) for the n a response of the model can reach
RECURSIVE Str(_)
Str(n) == IF n < 10 THEN <<DigitSeq[n + 1]>> ELSE Str(n \div 10) \o <<DigitSeq[(n % 10) + 1]>>

\* f"code_{i+1}.{ext}" under the desktop path; i counts from 0 as enumerate does
FilePath(i, ext) == DesktopPath \o CodeStem \o Str(i + 1) \o <<".">> \o ext

\* the python and bash blocks in the order the loop over the dict meets them,
\* each with the file it is written to and the command handed on
Execs(text) ==
    LET cb == extract_code_blocks(text)
        py == [i \in 1..Len(cb.python) |->
                 LET path == FilePath(i - 1, <<"p","y">>)
                 IN  [lang |-> "python", path |-> path, body |-> Strip(cb.python[i]),
                      cmd |-> PythonCmd \o path \o <<"\"">>]]
        sh == [i \in 1..Len(cb.bash) |->
                 LET path == FilePath(i - 1, <<"s","h">>)
                 IN  [lang |-> "bash", path |-> path, body |-> Strip(cb.bash[i]),
                      cmd |-> BashCmd \o path \o <<"\"">>]]
    IN  py \o sh

\* the keys of the patterns dict, in its order, which is the order of the loop
PatternLangs == <<"python", "javascript", "html", "css", "bash">>

\* the keys the loop over code_blocks.items() takes into its else branch
IsElseLang(lang) == lang \notin {"html", "css", "javascript", "python", "bash"}
ElseLangs == SelectSeq(PatternLangs, IsElseLang)

\* a key as the characters of its name
LangChars(lang) ==
    CASE lang = "python" -> TagPython
      [] lang = "javascript" -> TagJavascript
      [] lang = "html" -> TagHtml
      [] lang = "css" -> TagCss
      [] lang = "bash" -> TagBash

\* str.upper()
Upper(s) ==
    [i \in DOMAIN s |->
        IF s[i] \in Range(LowerSeq)
        THEN UpperSeq[CHOOSE j \in DOMAIN LowerSeq : LowerSeq[j] = s[i]]
        ELSE s[i]]

FileCreated == <<" ","f","i","l","e"," ","c","r","e","a","t","e","d",":"," ">>

\* the else branch: each block of such a key goes to code_i.key as it is, and
\* a line saying so is put on the queue
RECURSIVE RawFrom(_, _)
RawFrom(text, langs) ==
    IF langs = <<>> THEN <<>>
    ELSE LET lang == Head(langs)
             blocks == extract_code_blocks(text)[lang]
         IN  [i \in 1..Len(blocks) |->
                LET path == FilePath(i - 1, LangChars(lang))
                IN  [path |-> path, body |-> Strip(blocks[i]),
                     line |-> Upper(LangChars(lang)) \o FileCreated \o path]]
             \o RawFrom(text, Tail(langs))

RawWrites(text) == RawFrom(text, ElseLangs)

\* the files after the writes of raw, one after the other
RECURSIVE WriteAll(_, _)
WriteAll(fs, raw) ==
    IF raw = <<>> THEN fs
    ELSE WriteAll((Head(raw).path :> Head(raw).body) @@ fs, Tail(raw))

\* the loop body  x_code += block.strip() + newline
RECURSIVE JoinBlocks(_)
JoinBlocks(blocks) ==
    IF blocks = <<>> THEN <<>>
    ELSE Strip(Head(blocks)) \o NL \o JoinBlocks(Tail(blocks))

(***************************************************************************)
(* process_code_blocks: the assembled document                             *)
(***************************************************************************)
Placeholder == <<"<","d","i","v",">","<","/","d","i","v",">">>
HtmlTok == <<"<","h","t","m","l">>
DocHead == <<"<","h","t","m","l",">","\n","<","h","e","a","d",">","\n","<","s","t","y","l","e",">","\n">>
DocMid == <<"\n","<","/","s","t","y","l","e",">","\n","<","/","h","e","a","d",">","\n","<","b","o","d","y",">","\n">>
DocScript == <<"\n","<","s","c","r","i","p","t",">","\n">>
DocTail == <<"\n","<","/","s","c","r","i","p","t",">","\n","<","/","b","o","d","y",">","\n","<","/","h","t","m","l",">">>
StyleOpen == <<"<","s","t","y","l","e",">">>
StyleClose == <<"<","/","s","t","y","l","e",">">>
ScriptOpen == <<"<","s","c","r","i","p","t",">">>
ScriptClose == <<"<","/","s","c","r","i","p","t",">">>
HeadClose == <<"<","/","h","e","a","d",">">>
BodyClose == <<"<","/","b","o","d","y",">">>

\* re.sub(r'(pat)', ins + group 1, s, flags=re.IGNORECASE): ins goes in before
\* every occurrence of pat, matched without regard to case, left to right
RECURSIVE InsertBeforeAll(_, _, _, _)
InsertBeforeAll(s, pat, ins, from) ==
    LET ls == Lower(s)
        hits == {i \in from..Len(s) : OccursAt(pat, ls, i)}
    IN  IF hits = {} THEN SubSeq(s, from, Len(s))
        ELSE LET i == Min(hits)
             IN  SubSeq(s, from, i - 1) \o ins \o SubSeq(s, i, i + Len(pat) - 1)
                 \o InsertBeforeAll(s, pat, ins, i + Len(pat))

\* whether process_code_blocks assembles a document at all
HasWeb(text) ==
    LET cb == extract_code_blocks(text)
    IN  cb.html # <<>> \/ cb.css # <<>> \/ cb.javascript # <<>>

\* combined_html
Assemble(text) ==
    LET cb == extract_code_blocks(text)
        css_code == JoinBlocks(cb.css)
        js_code == JoinBlocks(cb.javascript)
        html0 == JoinBlocks(cb.html)
        html_code == IF html0 = <<>> THEN Placeholder ELSE html0
    IN  IF ~Contains(Lower(html_code), HtmlTok)
        THEN DocHead \o css_code \o DocMid \o html_code \o DocScript \o js_code \o DocTail
        ELSE LET withCss == IF css_code # <<>>
                            THEN InsertBeforeAll(html_code, HeadClose,
                                                 StyleOpen \o css_code \o StyleClose, 1)
                            ELSE html_code
             IN  IF js_code # <<>>
                 THEN InsertBeforeAll(withCss, BodyClose,
                                      ScriptOpen \o js_code \o ScriptClose, 1)
                 ELSE withCss

(***************************************************************************)
(* Bounds and inputs                                                       *)
(***************************************************************************)
MaxTasks == 1       \* submissions to the pool in one run of Spec
MaxPool == 2        \* submissions to the pool in one run of SpecPool
MaxLines == 2       \* lines one child process writes
MaxPad == 1         \* whitespace characters around a prompt of SpecValidate

PoolSize == 4       \* ThreadPoolExecutor(max_workers=4)

GeminiPro == <<"G","e","m","i","n","i"," ","P","r","o">>
GPT4 == <<"G","P","T","-","4">>
\* the primary provider and one of the stubbed ones (the stubs differ in name only)
Models == {GeminiPro, GPT4}

\* what the user may type: a sensitive prompt, a valid one holding a fenced
\* block, a valid plain one (the entry starts empty, which is too short)
PSensitive == <<"m","y"," ","k","e","y"," ","i","s"," ","1">>
PBlock == Fence \o TagBash \o NL \o <<"x">> \o NL \o Fence
PValid == <<"w","r","i","t","e"," ","c","o","d","e">>
Prompts == {PSensitive, PBlock}
PlainPrompts == {PSensitive, PValid}

\* what the provider may answer
RPlain == <<"o","k">>
RMixed == Fence \o TagPython \o NL \o <<"x">> \o NL \o Fence \o NL
          \o Fence \o TagHtml \o NL \o <<"<","p",">">> \o NL \o Fence \o NL
          \o Fence \o TagCss \o NL \o <<"a","{","}">> \o NL \o Fence
ResponseTexts == {RPlain, RMixed}

\* prompts for validate_input on its own: a word, a separator and a filler up
\* to a trimmed length around one of the two limits, inside whitespace
Pads == {<<>>} \cup {Rep(c, n) : c \in {" ", "\n"}, n \in 1..MaxPad}
TestWords == { <<"k","e","y">>,
               <<"K","E","Y">>,
               <<"K","e","y">>,
               <<"s","e","c","r","e","t">>,
               <<"S","e","C","r","E","t">>,
               <<"p","a","s","s","w","o","r","d">>,
               <<"P","A","S","S","W","O","R","D">>,
               <<"k","e","y","s">>,
               <<"m","o","n","k","e","y">>,
               <<"a","b">> }
Seps == {" ", "_", "-", "1"}
ShortLens == {MinLen - 1, MinLen, MinLen + 1}
LongLens == {MaxLen - 1, MaxLen, MaxLen + 1}
Body(w, sep, L, atEnd) ==
    IF L <= Len(w) THEN w
    ELSE IF atEnd THEN Rep("a", L - Len(w) - 1) \o <<sep>> \o w
    ELSE w \o <<sep>> \o Rep("a", L - Len(w) - 1)
ShortInputs ==
    {l \o Body(w, sep, L, e) \o r :
        l \in Pads, r \in Pads, w \in TestWords, sep \in Seps,
        L \in ShortLens \cup {1}, e \in BOOLEAN}
LongInputs ==
    {l \o Body(w, " ", L, TRUE) \o l :
        l \in {<<>>, Rep(" ", MaxPad)}, w \in {<<"k","e","y">>, <<"a","b">>},
        L \in LongLens}
ValidateInputs == ShortInputs \cup LongInputs

\* commands for execute_safe_command on its own: a denylist pattern, a near
\* miss or a harmless command, inside a little context
GatePre == {<<>>, <<"a">>, <<" ">>}
GatePost == {<<>>, <<"x">>, <<" ">>}
GateMid == unsafe_patterns \cup { PythonCmd \o FilePath(0, <<"p","y">>) \o <<"\"">>,
               <<"r","m">>,
               <<"R","M"," ">>,
               <<"d","e","l">>,
               <<"D","e","l"," ">>,
               <<"f","o","r","m","a","t">>,
               <<"F","o","r","m","a","t"," ">>,
               <<"c","h","m","o">>,
               <<"C","h","m","o","d">>,
               <<"c","h"," ","m","o","d">>,
               <<"s","u","d">>,
               <<"S","U","D","O">>,
               <<"e","c","h","o"," ","h","e","l","l","o">>,
               <<"s","u","d","o"," ","r","m"," ","-","r","f"," ","/">>,
               <<"l","s"," ","-","l">> }
GateCommands == {a \o m \o b : a \in GatePre, m \in GateMid, b \in GatePost}

\* answers for process_code_blocks on its own: fenced html, css and javascript
\* blocks, fragments and whole documents, and a block in a language the
\* patterns do not name
TagRuby == <<"r","u","b","y">>
FencedBlock(tag, body) == Fence \o tag \o NL \o body \o NL \o Fence \o NL
RECURSIVE FencedBlocks(_, _)
FencedBlocks(tag, bodies) ==
    IF bodies = <<>> THEN <<>>
    ELSE FencedBlock(tag, Head(bodies)) \o FencedBlocks(tag, Tail(bodies))
HtmlPara == <<"<","p",">","h","i","<","/","p",">">>
HtmlDoc == <<"<","h","t","m","l",">","<","h","e","a","d",">","<","/","h","e","a","d",">","<","b","o","d","y",">","<","/","b","o","d","y",">","<","/","h","t","m","l",">">>
HtmlDocCaps == <<"<","H","T","M","L",">","<","H","E","A","D",">","<","/","H","E","A","D",">","<","B","O","D","Y",">","<","/","B","O","D","Y",">","<","/","H","T","M","L",">">>
HtmlChoices == { <<>>, <<HtmlPara>>, <<HtmlDoc>>, <<HtmlDocCaps>>,
                 <<HtmlPara, HtmlPara>>, <<HtmlPara, HtmlDoc>>, <<HtmlDoc, HtmlDoc>> }
CssChoices == { <<>>, <<<<"a","{","}">>>>, <<<<"/","*","<","h","t","m","l","*","/">>>> }
JsChoices == { <<>>, <<<<"x","=","1">>>>, <<<<"s","=","'","<","h","t","m","l",">","'">>>> }
OtherChoices == { <<>>, <<<<"p","u","t","s"," ","1">>>> }
BlockTexts ==
    {FencedBlocks(TagHtml, h) \o FencedBlocks(TagCss, c)
        \o FencedBlocks(TagJavascript, j) \o FencedBlocks(TagRuby, o) :
        h \in HtmlChoices, c \in CssChoices, j \in JsChoices, o \in OtherChoices}

\* what edit_instructions may hold
InstrInputs == {<<>>, <<" ">>, <<"f","i","x">>}

\* what a child process may write as one line
ChildLines == {<<"h","i","\n">>}

(***************************************************************************)
(* State                                                                   *)
(***************************************************************************)
VARIABLES
    text_entry,         \* text_entry.toPlainText()
    selected_model,     \* self.selected_model
    generate_btn,       \* generate_btn.isEnabled()
    readOnly,           \* text_entry.isReadOnly()
    apply_changes_btn,  \* apply_changes_btn.isEnabled()
    tasks,              \* the futures of the pool, in submission order
    running_tasks,      \* self.running_tasks
    events,             \* queued signal emissions awaiting the UI thread
    shown,              \* the message of the last show_error dialog
    anims,              \* typewriter chains of animate_text_output still running
    queue,              \* self.queue, the OutputQueue
    terminal,           \* the lines appended to self.terminal
    ui,                 \* where the UI thread is
    proc,               \* the child process of execute_safe_command
    spawned,            \* child processes spawned so far
    raised,             \* the exception that last left a UI callback
    files,              \* the files written on the desktop
    live_preview        \* the document last given to live_preview.setHtml

vars == <<text_entry, selected_model, generate_btn, readOnly, apply_changes_btn,
          tasks, running_tasks, events, shown, anims, queue, terminal,
          ui, proc, spawned, raised, files, live_preview>>

Idle == [pc |-> "idle", text |-> <<>>, k |-> 0, cmd |-> <<>>]
NoProc == [pid |-> 0, status |-> "none", pipe |-> <<>>, written |-> 0]

InitCommon ==
    /\ selected_model = GeminiPro
    /\ generate_btn = TRUE
    /\ readOnly = FALSE
    /\ apply_changes_btn = TRUE
    /\ tasks = <<>>
    /\ running_tasks = <<>>
    /\ events = <<>>
    /\ shown = ""
    /\ anims = <<>>
    /\ queue = <<>>
    /\ terminal = <<>>
    /\ proc = NoProc
    /\ spawned = 0
    /\ raised = "none"
    /\ files = <<>>
    /\ live_preview = <<>>

Init ==
    /\ InitCommon
    /\ text_entry = <<>>
    /\ ui = Idle

(***************************************************************************)
(* The user at the controls (UI thread)                                    *)
(***************************************************************************)
UiIdle == ui.pc = "idle"

\* a future of the pool: where its worker is (pc), the Task status of the
\* design, what the worker read, and counts of what it did so far: provider
\* calls made, calls that threw, emissions of each signal
NewTask(kind, payload) ==
    [kind |-> kind, pc |-> "pending", status |-> "Pending", prompt |-> payload,
     model_used |-> <<>>, calls |-> 0, threw |-> 0,
     nResult |-> 0, nError |-> 0, nCodeMod |-> 0, nUi |-> 0]

\* typing into text_entry, which a read-only entry does not take
EditText(p) ==
    /\ UiIdle
    /\ ~readOnly
    /\ text_entry' = p
    /\ UNCHANGED <<selected_model, generate_btn, readOnly, apply_changes_btn, tasks,
                   running_tasks, events, shown, anims, queue, terminal,
                   ui, proc, spawned, raised, files, live_preview>>

change_model(m) ==
    /\ UiIdle
    /\ selected_model' = m
    /\ UNCHANGED <<text_entry, generate_btn, readOnly, apply_changes_btn, tasks,
                   running_tasks, events, shown, anims, queue, terminal,
                   ui, proc, spawned, raised, files, live_preview>>

\* safe_generate_content with toggle_ui_state(False) moved before the
\* validation, so that a failed validation leaves the controls disabled
safe_generate_content_ToggleFirst ==
    /\ UiIdle
    /\ generate_btn
    /\ generate_btn' = FALSE
    /\ readOnly' = TRUE
    /\ LET v == validate_input(text_entry)
       IN  IF v.exc = "none"
           THEN /\ tasks' = Append(tasks, NewTask("Generate", <<>>))
                /\ running_tasks' = Append(running_tasks, Len(tasks) + 1)
                /\ shown' = shown
           ELSE /\ shown' = v.msg
                /\ UNCHANGED <<tasks, running_tasks>>
    /\ UNCHANGED <<text_entry, selected_model, apply_changes_btn, events, anims,
                   queue, terminal, ui, proc, spawned, raised, files, live_preview>>

\* safe_generate_content with a toggle_ui_state(False) that disables the button
\* and leaves the entry open to typing
safe_generate_content_NoReadOnly ==
    /\ UiIdle
    /\ generate_btn
    /\ LET v == validate_input(text_entry)
       IN  IF v.exc = "none"
           THEN /\ generate_btn' = FALSE
                /\ readOnly' = readOnly
                /\ tasks' = Append(tasks, NewTask("Generate", <<>>))
                /\ running_tasks' = Append(running_tasks, Len(tasks) + 1)
                /\ shown' = shown
           ELSE /\ shown' = v.msg
                /\ UNCHANGED <<generate_btn, readOnly, tasks, running_tasks>>
    /\ UNCHANGED <<text_entry, selected_model, apply_changes_btn, events, anims,
                   queue, terminal, ui, proc, spawned, raised, files, live_preview>>

\* a click on generate_btn, which a disabled button does not take.  The
\* error signal is emitted on the UI thread here, so show_error runs at once.
safe_generate_content ==
    /\ UiIdle
    /\ generate_btn
    /\ LET v == validate_input(text_entry)
       IN  IF v.exc = "none"
           THEN /\ generate_btn' = FALSE
                /\ readOnly' = TRUE
                /\ tasks' = Append(tasks, NewTask("Generate", <<>>))
                /\ running_tasks' = Append(running_tasks, Len(tasks) + 1)
                /\ shown' = shown
           ELSE /\ shown' = v.msg
                /\ UNCHANGED <<generate_btn, readOnly, tasks, running_tasks>>
    /\ UNCHANGED <<text_entry, selected_model, apply_changes_btn, events, anims,
                   queue, terminal, ui, proc, spawned, raised, files, live_preview>>

\* a click on apply_changes_btn with instr in edit_instructions
apply_code_changes(instr) ==
    /\ UiIdle
    /\ apply_changes_btn
    /\ IF Strip(instr) = <<>>
       THEN UNCHANGED <<apply_changes_btn, tasks>>
       ELSE /\ apply_changes_btn' = FALSE
            /\ tasks' = Append(tasks, NewTask("ModifyCode", Strip(instr)))
    /\ UNCHANGED <<text_entry, selected_model, generate_btn, readOnly, running_tasks,
                   events, shown, anims, queue, terminal, ui, proc, spawned,
                   raised, files, live_preview>>

(***************************************************************************)
(* The workers of the pool                                                 *)
(***************************************************************************)
Busy == {t \in DOMAIN tasks : tasks[t].pc \notin {"pending", "done"}}

Signal(sig, text, msg, flag, t) ==
    [sig |-> sig, text |-> text, msg |-> msg, flag |-> flag, task |-> t]

\* a free pool thread takes the oldest waiting task; generate_content_worker
\* then reads the prompt and the selected model
StartTask(t) ==
    /\ tasks[t].pc = "pending"
    /\ \A u \in 1..(t - 1) : tasks[u].pc # "pending"
    /\ Cardinality(Busy) < PoolSize
    /\ tasks' = [tasks EXCEPT ![t] =
                   IF @.kind = "Generate"
                   THEN [@ EXCEPT !.pc = "running", !.status = "Running",
                                  !.prompt = Strip(text_entry),
                                  !.model_used = selected_model]
                   ELSE [@ EXCEPT !.pc = "running", !.status = "Running"]]
    /\ UNCHANGED <<text_entry, selected_model, generate_btn, readOnly,
                   apply_changes_btn, running_tasks, events, shown, anims,
                   queue, terminal, ui, proc, spawned, raised, files, live_preview>>

\* the pieces of the simulated output of a stubbed model
SimHead == <<"S","i","m","u","l","a","t","e","d"," ","o","u","t","p","u","t"," ","f","r","o","m"," ">>
SimMid == <<" ","f","o","r"," ","p","r","o","m","p","t",":"," ">>

\* the inner try without the fallback the handler of primary_error makes: a
\* call that throws goes straight to the outer handler
GenerateTry_NoFallback(t, ok, r) ==
    /\ tasks[t].kind = "Generate"
    /\ tasks[t].pc = "running"
    /\ IF tasks[t].model_used = GeminiPro
       THEN IF ok
            THEN /\ tasks' = [tasks EXCEPT ![t].calls = @ + 1, ![t].pc = "finally",
                                           ![t].status = "Succeeded", ![t].nResult = @ + 1]
                 /\ events' = Append(events, [sig |-> "result", text |-> r, msg |-> "",
                                              flag |-> FALSE, task |-> t])
            ELSE /\ tasks' = [tasks EXCEPT ![t].calls = @ + 1, ![t].threw = @ + 1,
                                           ![t].pc = "finally",
                                           ![t].status = "Failed", ![t].nError = @ + 1]
                 /\ events' = Append(events, [sig |-> "error", text |-> <<>>,
                                              msg |-> "API Error: provider failure",
                                              flag |-> FALSE, task |-> t])
       ELSE /\ tasks' = [tasks EXCEPT ![t].pc = "finally", ![t].status = "Succeeded",
                                      ![t].nResult = @ + 1]
            /\ events' = Append(events,
                   [sig |-> "result",
                    text |-> SimHead \o tasks[t].model_used \o SimMid \o tasks[t].prompt,
                    msg |-> "", flag |-> FALSE, task |-> t])
    /\ UNCHANGED <<text_entry, selected_model, generate_btn, readOnly,
                   apply_changes_btn, running_tasks, shown, anims, queue,
                   terminal, ui, proc, spawned, raised, files, live_preview>>

\* the inner try of generate_content_worker: the primary provider is called and
\* answers r or throws; any other model yields the simulated output
GenerateTry(t, ok, r) ==
    /\ tasks[t].kind = "Generate"
    /\ tasks[t].pc = "running"
    /\ IF tasks[t].model_used = GeminiPro
       THEN IF ok
            THEN /\ tasks' = [tasks EXCEPT ![t].calls = @ + 1, ![t].pc = "finally",
                                           ![t].status = "Succeeded", ![t].nResult = @ + 1]
                 /\ events' = Append(events, Signal("result", r, "", FALSE, t))
            ELSE /\ tasks' = [tasks EXCEPT ![t].calls = @ + 1, ![t].threw = @ + 1,
                                           ![t].pc = "fallback"]
                 /\ events' = events
       ELSE /\ tasks' = [tasks EXCEPT ![t].pc = "finally", ![t].status = "Succeeded",
                                      ![t].nResult = @ + 1]
            /\ events' = Append(events,
                   Signal("result",
                          SimHead \o tasks[t].model_used \o SimMid \o tasks[t].prompt,
                          "", FALSE, t))
    /\ UNCHANGED <<text_entry, selected_model, generate_btn, readOnly,
                   apply_changes_btn, running_tasks, shown, anims, queue,
                   terminal, ui, proc, spawned, raised, files, live_preview>>

\* the fallback made a loop: a retry that throws is retried once more
GenerateFallback_RetryAgain(t, ok, r) ==
    /\ tasks[t].kind = "Generate"
    /\ tasks[t].pc = "fallback"
    /\ IF ok
       THEN /\ tasks' = [tasks EXCEPT ![t].calls = @ + 1, ![t].pc = "finally",
                                      ![t].status = "Succeeded", ![t].nResult = @ + 1]
            /\ events' = Append(events, [sig |-> "result", text |-> r, msg |-> "",
                                         flag |-> FALSE, task |-> t])
       ELSE IF tasks[t].calls < 2
       THEN /\ tasks' = [tasks EXCEPT ![t].calls = @ + 1, ![t].threw = @ + 1]
            /\ events' = events
       ELSE /\ tasks' = [tasks EXCEPT ![t].calls = @ + 1, ![t].threw = @ + 1,
                                      ![t].pc = "finally",
                                      ![t].status = "Failed", ![t].nError = @ + 1]
            /\ events' = Append(events, [sig |-> "error", text |-> <<>>,
                                         msg |-> "API Error: provider failure",
                                         flag |-> FALSE, task |-> t])
    /\ UNCHANGED <<text_entry, selected_model, generate_btn, readOnly,
                   apply_changes_btn, running_tasks, shown, anims, queue,
                   terminal, ui, proc, spawned, raised, files, live_preview>>

\* except primary_error: one more call, to Gemini Pro; if that throws too the
\* outer except emits the error
GenerateFallback(t, ok, r) ==
    /\ tasks[t].kind = "Generate"
    /\ tasks[t].pc = "fallback"
    /\ IF ok
       THEN /\ tasks' = [tasks EXCEPT ![t].calls = @ + 1, ![t].pc = "finally",
                                      ![t].status = "Succeeded", ![t].nResult = @ + 1]
            /\ events' = Append(events, Signal("result", r, "", FALSE, t))
       ELSE /\ tasks' = [tasks EXCEPT ![t].calls = @ + 1, ![t].threw = @ + 1,
                                      ![t].pc = "finally",
                                      ![t].status = "Failed", ![t].nError = @ + 1]
            /\ events' = Append(events,
                   Signal("error", <<>>, "API Error: provider failure", FALSE, t))
    /\ UNCHANGED <<text_entry, selected_model, generate_btn, readOnly,
                   apply_changes_btn, running_tasks, shown, anims, queue,
                   terminal, ui, proc, spawned, raised, files, live_preview>>

\* finally: self.signals.ui_update.emit(True)
GenerateFinally(t) ==
    /\ tasks[t].kind = "Generate"
    /\ tasks[t].pc = "finally"
    /\ tasks' = [tasks EXCEPT ![t].pc = "done", ![t].nUi = @ + 1]
    /\ events' = Append(events, Signal("ui_update", <<>>, "", TRUE, t))
    /\ UNCHANGED <<text_entry, selected_model, generate_btn, readOnly,
                   apply_changes_btn, running_tasks, shown, anims, queue,
                   terminal, ui, proc, spawned, raised, files, live_preview>>

\* apply_code_changes_worker without the return of its error path: after the
\* error signal the code-modification signal is emitted as well
apply_code_changes_worker_NoReturn(t, ok, r) ==
    /\ tasks[t].kind = "ModifyCode"
    /\ tasks[t].pc = "running"
    /\ IF ok
       THEN /\ tasks' = [tasks EXCEPT ![t].calls = @ + 1, ![t].pc = "done",
                                      ![t].status = "Succeeded", ![t].nCodeMod = @ + 1]
            /\ events' = Append(events, [sig |-> "code_modification", text |-> r,
                                         msg |-> "", flag |-> FALSE, task |-> t])
       ELSE /\ tasks' = [tasks EXCEPT ![t].calls = @ + 1, ![t].threw = @ + 1,
                                      ![t].pc = "done", ![t].status = "Failed",
                                      ![t].nError = @ + 1, ![t].nCodeMod = @ + 1]
            /\ events' = events
                 \o << [sig |-> "error", text |-> <<>>,
                        msg |-> "Error modifying code: provider failure",
                        flag |-> FALSE, task |-> t],
                       [sig |-> "code_modification", text |-> <<>>, msg |-> "",
                        flag |-> FALSE, task |-> t] >>
    /\ UNCHANGED <<text_entry, selected_model, generate_btn, readOnly,
                   apply_changes_btn, running_tasks, shown, anims, queue,
                   terminal, ui, proc, spawned, raised, files, live_preview>>

\* apply_code_changes_worker: one call; the error path returns early
apply_code_changes_worker(t, ok, r) ==
    /\ tasks[t].kind = "ModifyCode"
    /\ tasks[t].pc = "running"
    /\ IF ok
       THEN /\ tasks' = [tasks EXCEPT ![t].calls = @ + 1, ![t].pc = "done",
                                      ![t].status = "Succeeded", ![t].nCodeMod = @ + 1]
            /\ events' = Append(events, Signal("code_modification", r, "", FALSE, t))
       ELSE /\ tasks' = [tasks EXCEPT ![t].calls = @ + 1, ![t].threw = @ + 1,
                                      ![t].pc = "done",
                                      ![t].status = "Failed", ![t].nError = @ + 1]
            /\ events' = Append(events,
                   Signal("error", <<>>, "Error modifying code: provider failure", FALSE, t))
    /\ UNCHANGED <<text_entry, selected_model, generate_btn, readOnly,
                   apply_changes_btn, running_tasks, shown, anims, queue,
                   terminal, ui, proc, spawned, raised, files, live_preview>>

(***************************************************************************)
(* The UI thread: slots of the queued signals, timers, the command loop    *)
(***************************************************************************)
\* the lines process_code_blocks itself has put on the queue so far
UiLinesPut == Cardinality({i \in DOMAIN (terminal \o queue) : (terminal \o queue)[i].src = 0})

\* process_code_blocks(text) from its k-th python/bash block on: write the next
\* block to its file and go to run it, or, past the last one, do the raw
\* writes of the else branch, assemble the web document and return
ProcessFrom(text, k) ==
    LET ex == Execs(text)
    IN  IF k < Len(ex)
        THEN /\ files' = (ex[k + 1].path :> ex[k + 1].body) @@ files
             /\ ui' = [pc |-> "call", text |-> text, k |-> k + 1, cmd |-> ex[k + 1].cmd]
             /\ UNCHANGED <<queue, live_preview>>
        ELSE LET raw == RawWrites(text)
                 rawLines == [i \in 1..Len(raw) |->
                                [src |-> 0, n |-> UiLinesPut + i, text |-> raw[i].line]]
             IN  /\ ui' = Idle
                 /\ files' = WriteAll(files, raw)
                 /\ IF HasWeb(text)
                    THEN /\ live_preview' = Assemble(text)
                         /\ queue' = Append(queue \o rawLines,
                                            [src |-> 0, n |-> UiLinesPut + Len(raw) + 1,
                                             text |-> PreviewLine])
                    ELSE /\ queue' = queue \o rawLines
                         /\ live_preview' = live_preview

\* slot of signals.result: the typewriter chain starts; for an empty text its
\* first step already is the last one
handle_result ==
    /\ UiIdle
    /\ events # <<>>
    /\ Head(events).sig = "result"
    /\ events' = Tail(events)
    /\ IF Head(events).text = <<>>
       THEN /\ ProcessFrom(<<>>, 0)
            /\ anims' = anims
       ELSE /\ anims' = Append(anims, Head(events).text)
            /\ UNCHANGED <<ui, files, queue, live_preview>>
    /\ UNCHANGED <<text_entry, selected_model, generate_btn, readOnly,
                   apply_changes_btn, tasks, running_tasks, shown, terminal,
                   proc, spawned, raised>>

\* the last timer step of a typewriter chain: process_code_blocks(text)
AnimationFinished(i) ==
    /\ UiIdle
    /\ i \in DOMAIN anims
    /\ anims' = SubSeq(anims, 1, i - 1) \o SubSeq(anims, i + 1, Len(anims))
    /\ ProcessFrom(anims[i], 0)
    /\ UNCHANGED <<text_entry, selected_model, generate_btn, readOnly,
                   apply_changes_btn, tasks, running_tasks, events, shown,
                   terminal, proc, spawned, raised>>

\* slot of signals.error
show_error ==
    /\ UiIdle
    /\ events # <<>>
    /\ Head(events).sig = "error"
    /\ events' = Tail(events)
    /\ shown' = Head(events).msg
    /\ UNCHANGED <<text_entry, selected_model, generate_btn, readOnly,
                   apply_changes_btn, tasks, running_tasks, anims, queue,
                   terminal, ui, proc, spawned, raised, files, live_preview>>

\* slot of signals.ui_update
toggle_ui_state ==
    /\ UiIdle
    /\ events # <<>>
    /\ Head(events).sig = "ui_update"
    /\ events' = Tail(events)
    /\ generate_btn' = Head(events).flag
    /\ readOnly' = ~Head(events).flag
    /\ UNCHANGED <<text_entry, selected_model, apply_changes_btn, tasks,
                   running_tasks, shown, anims, queue, terminal, ui, proc,
                   spawned, raised, files, live_preview>>

\* slot of signals.code_modification
handle_code_modification_result ==
    /\ UiIdle
    /\ events # <<>>
    /\ Head(events).sig = "code_modification"
    /\ events' = Tail(events)
    /\ apply_changes_btn' = TRUE
    /\ UNCHANGED <<text_entry, selected_model, generate_btn, readOnly, tasks,
                   running_tasks, shown, anims, queue, terminal, ui, proc,
                   spawned, raised, files, live_preview>>

Reverse(q) == [i \in 1..Len(q) |-> q[Len(q) + 1 - i]]

\* process_terminal_queue over a stack instead of a queue: what was put last
\* is shown first
process_terminal_queue_Lifo ==
    /\ UiIdle
    /\ queue # <<>>
    /\ terminal' = terminal \o Reverse(queue)
    /\ queue' = <<>>
    /\ UNCHANGED <<text_entry, selected_model, generate_btn, readOnly,
                   apply_changes_btn, tasks, running_tasks, events, shown,
                   anims, ui, proc, spawned, raised, files, live_preview>>

\* the 50 ms timer: the queue is drained into the terminal
process_terminal_queue ==
    /\ UiIdle
    /\ queue # <<>>
    /\ terminal' = terminal \o queue
    /\ queue' = <<>>
    /\ UNCHANGED <<text_entry, selected_model, generate_btn, readOnly,
                   apply_changes_btn, tasks, running_tasks, events, shown,
                   anims, ui, proc, spawned, raised, files, live_preview>>

\* execute_safe_command echoing the command before the gate looks at it
execute_safe_command_EchoFirst ==
    /\ ui.pc = "call"
    /\ queue' = Append(queue, [src |-> spawned + 1, n |-> 0,
                               text |-> Echo \o ui.cmd])
    /\ IF Blocked(ui.cmd)
       THEN /\ raised' = "SecurityError"
            /\ ui' = Idle
            /\ UNCHANGED <<proc, spawned>>
       ELSE /\ proc' = [pid |-> spawned + 1, status |-> "running", pipe |-> <<>>,
                        written |-> 0]
            /\ spawned' = spawned + 1
            /\ ui' = [ui EXCEPT !.pc = "poll"]
            /\ raised' = raised
    /\ UNCHANGED <<text_entry, selected_model, generate_btn, readOnly,
                   apply_changes_btn, tasks, running_tasks, events, shown,
                   anims, terminal, files, live_preview>>

\* execute_safe_command(ui.cmd) up to the loop: the gate, the echo, Popen.  A
\* blocked command raises out of process_code_blocks and of its timer callback.
execute_safe_command ==
    /\ ui.pc = "call"
    /\ IF Blocked(ui.cmd)
       THEN /\ raised' = "SecurityError"
            /\ ui' = Idle
            /\ UNCHANGED <<queue, proc, spawned>>
       ELSE /\ queue' = Append(queue, [src |-> spawned + 1, n |-> 0,
                                       text |-> Echo \o ui.cmd])
            /\ proc' = [pid |-> spawned + 1, status |-> "running", pipe |-> <<>>,
                        written |-> 0]
            /\ spawned' = spawned + 1
            /\ ui' = [ui EXCEPT !.pc = "poll"]
            /\ raised' = raised
    /\ UNCHANGED <<text_entry, selected_model, generate_btn, readOnly,
                   apply_changes_btn, tasks, running_tasks, events, shown,
                   anims, terminal, files, live_preview>>

\* while proc.poll() is None: the loop test; on exit the command returns into
\* process_code_blocks, which goes on with its next block
Poll ==
    /\ ui.pc = "poll"
    /\ IF proc.status = "running"
       THEN /\ ui' = [ui EXCEPT !.pc = "readline"]
            /\ UNCHANGED <<proc, files, queue, live_preview>>
       ELSE /\ proc' = NoProc
            /\ ProcessFrom(ui.text, ui.k)
    /\ UNCHANGED <<text_entry, selected_model, generate_btn, readOnly,
                   apply_changes_btn, tasks, running_tasks, events, shown,
                   anims, terminal, spawned, raised>>

\* output = proc.stdout.readline(): waits for a line or for end of file; a
\* line is put on the queue stripped, the empty string of end of file is not
Readline ==
    /\ ui.pc = "readline"
    /\ proc.pipe # <<>> \/ proc.status = "exited"
    /\ IF proc.pipe # <<>>
       THEN /\ proc' = [proc EXCEPT !.pipe = Tail(@)]
            /\ queue' = Append(queue, [src |-> proc.pid, n |-> Head(proc.pipe).n,
                                       text |-> Strip(Head(proc.pipe).text)])
       ELSE UNCHANGED <<proc, queue>>
    /\ ui' = [ui EXCEPT !.pc = "poll"]
    /\ UNCHANGED <<text_entry, selected_model, generate_btn, readOnly,
                   apply_changes_btn, tasks, running_tasks, events, shown,
                   anims, terminal, spawned, raised, files, live_preview>>

(***************************************************************************)
(* The child process                                                       *)
(***************************************************************************)
ChildWrite(l) ==
    /\ proc.status = "running"
    /\ proc.written < MaxLines
    /\ proc' = [proc EXCEPT !.pipe = Append(@, [n |-> proc.written + 1, text |-> l]),
                            !.written = @ + 1]
    /\ UNCHANGED <<text_entry, selected_model, generate_btn, readOnly,
                   apply_changes_btn, tasks, running_tasks, events, shown,
                   anims, queue, terminal, ui, spawned, raised, files, live_preview>>

ChildExit ==
    /\ proc.status = "running"
    /\ proc' = [proc EXCEPT !.status = "exited"]
    /\ UNCHANGED <<text_entry, selected_model, generate_btn, readOnly,
                   apply_changes_btn, tasks, running_tasks, events, shown,
                   anims, queue, terminal, ui, spawned, raised, files, live_preview>>

(***************************************************************************)
(* The specifications                                                      *)
(***************************************************************************)
\* the worker threads, answered from the texts in responses
Workers(responses) ==
    \/ \E t \in DOMAIN tasks : StartTask(t)
    \/ \E t \in DOMAIN tasks, ok \in BOOLEAN, r \in responses : GenerateTry(t, ok, r)
    \/ \E t \in DOMAIN tasks, ok \in BOOLEAN, r \in responses : GenerateFallback(t, ok, r)
    \/ \E t \in DOMAIN tasks : GenerateFinally(t)
    \/ \E t \in DOMAIN tasks, ok \in BOOLEAN, r \in responses :
          apply_code_changes_worker(t, ok, r)

\* the user, typing prompts of the set prompts, with at most cap submissions
User(prompts, cap) ==
    \/ \E p \in prompts : EditText(p)
    \/ \E m \in Models : change_model(m)
    \/ (Len(tasks) < cap \/ validate_input(text_entry).exc # "none") /\ safe_generate_content
    \/ \E instr \in InstrInputs : Len(tasks) < cap /\ apply_code_changes(instr)

\* the slots and timers of the UI thread that every run uses
Slots ==
    \/ handle_result
    \/ \E i \in DOMAIN anims : AnimationFinished(i)
    \/ show_error
    \/ toggle_ui_state
    \/ handle_code_modification_result

\* running commands and showing their output
Commands ==
    \/ process_terminal_queue
    \/ execute_safe_command
    \/ Poll
    \/ Readline
    \/ \E l \in ChildLines : ChildWrite(l)
    \/ ChildExit

\* the whole program, answers with code blocks included
Next == User(Prompts, MaxTasks) \/ Workers(ResponseTexts) \/ Slots \/ Commands

Spec == Init /\ [][Next]_vars

\* the task pool under prompts and answers without code blocks, where no
\* command is ever run
NextPool == User(PlainPrompts, MaxPool) \/ Workers({RPlain}) \/ Slots

SpecPool == Init /\ [][NextPool]_vars

\* validate_input on its own: the entry holds any of the prompts above and the
\* user clicks Generate
InitValidate ==
    /\ InitCommon
    /\ text_entry \in ValidateInputs
    /\ ui = Idle

NextValidate == safe_generate_content

SpecValidate == InitValidate /\ [][NextValidate]_vars

\* execute_safe_command on its own: the UI thread is about to call it with any
\* of the commands above, outside any response
InitGate ==
    /\ InitCommon
    /\ text_entry = <<>>
    /\ ui \in {[pc |-> "call", text |-> <<>>, k |-> 0, cmd |-> c] : c \in GateCommands}

NextGate == Commands

SpecGate == InitGate /\ [][NextGate]_vars

\* process_code_blocks on its own: a Generate task has just ended with any of
\* the answers above, its two signals wait for the UI thread
InitBlocks ==
    /\ text_entry = PValid
    /\ selected_model = GeminiPro
    /\ generate_btn = FALSE
    /\ readOnly = TRUE
    /\ apply_changes_btn = TRUE
    /\ tasks = << [NewTask("Generate", PValid) EXCEPT
                     !.pc = "done", !.status = "Succeeded",
                     !.model_used = GeminiPro, !.calls = 1,
                     !.nResult = 1, !.nUi = 1] >>
    /\ running_tasks = <<1>>
    /\ events \in {<<Signal("result", r, "", FALSE, 1),
                      Signal("ui_update", <<>>, "", TRUE, 1)>> : r \in BlockTexts}
    /\ shown = ""
    /\ anims = <<>>
    /\ queue = <<>>
    /\ terminal = <<>>
    /\ ui = Idle
    /\ proc = NoProc
    /\ spawned = 0
    /\ raised = "none"
    /\ files = <<>>
    /\ live_preview = <<>>

NextBlocks ==
    \/ handle_result
    \/ \E i \in DOMAIN anims : AnimationFinished(i)
    \/ toggle_ui_state
    \/ process_terminal_queue

SpecBlocks == InitBlocks /\ [][NextBlocks]_vars

(***************************************************************************)
(* Properties of the task pool                                             *)
(***************************************************************************)
Done(t) == tasks[t].pc = "done"
PoolDrained == \A t \in DOMAIN tasks : Done(t)

\* the notifications that tell the consumer a task has ended
TerminalNotifications(t) == tasks[t].nResult + tasks[t].nCodeMod + tasks[t].nError

\* the notifications that give the control disabled at submission back: the
\* ui_update signal of a Generate task, and the code_modification signal of a
\* ModifyCode task, whose slot enables apply_changes_btn
EnableNotifications(t) == tasks[t].nUi + tasks[t].nCodeMod

RECURSIVE SumOver(_, _)
SumOver(f, n) == IF n = 0 THEN 0 ELSE f[n] + SumOver(f, n - 1)

\* C1 (as claimed): every task that has ended, of either kind and whether it
\* succeeded or failed, has had exactly one UI-enable notification emitted,
\* and once the pool is drained and every notification is handled both the
\* generate button and the apply-changes button are enabled again.
C1_EnableOncePerTask ==
    /\ \A t \in DOMAIN tasks : Done(t) => EnableNotifications(t) = 1
    /\ (PoolDrained /\ events = <<>>) => (generate_btn /\ apply_changes_btn)

\* C3: a task never has more than one terminal notification; a task that has
\* ended has exactly one, a result or code-modification notification if it
\* succeeded and an error notification if it failed, never both; so with the
\* pool drained the terminal notifications number as many as the submissions;
\* and every notification waiting for the UI thread belongs to a submitted task.
C3_OneTerminalNotificationPerTask ==
    /\ \A t \in DOMAIN tasks :
         /\ TerminalNotifications(t) <= 1
         /\ Done(t) => TerminalNotifications(t) = 1
         /\ tasks[t].status = "Succeeded" <=> tasks[t].nResult + tasks[t].nCodeMod = 1
         /\ tasks[t].status = "Failed" <=> tasks[t].nError = 1
    /\ PoolDrained =>
         SumOver([t \in DOMAIN tasks |-> TerminalNotifications(t)], Len(tasks)) = Len(tasks)
    /\ \A i \in DOMAIN events :
         /\ events[i].task \in DOMAIN tasks
         /\ events[i].sig \in {"result", "code_modification"}
              => tasks[events[i].task].status = "Succeeded"
         /\ events[i].sig = "error" => tasks[events[i].task].status = "Failed"

\* two submissions have ended, one failed and one succeeded
C3_Witness ==
    /\ Len(tasks) = MaxPool
    /\ PoolDrained
    /\ \E t \in DOMAIN tasks : tasks[t].status = "Failed"
    /\ \E t \in DOMAIN tasks : tasks[t].status = "Succeeded"

\* C4: a Generate task makes at most two provider calls; when it has ended, a
\* first call that threw followed by a retry that answered leaves it Succeeded
\* with one result notification and no error notification, and two calls that
\* threw leave it Failed with one error notification and no result notification.
C4_AtMostOneRetry ==
    \A t \in DOMAIN tasks :
        tasks[t].kind = "Generate" =>
            /\ tasks[t].calls <= 2
            /\ tasks[t].threw <= tasks[t].calls
            /\ (Done(t) /\ tasks[t].threw = 1) =>
                   /\ tasks[t].calls = 2
                   /\ tasks[t].status = "Succeeded"
                   /\ tasks[t].nResult = 1 /\ tasks[t].nError = 0
            /\ (Done(t) /\ tasks[t].threw = 2) =>
                   /\ tasks[t].status = "Failed"
                   /\ tasks[t].nError = 1 /\ tasks[t].nResult = 0

\* one task ended after a retry that answered, another after a retry that threw
C4_Witness ==
    /\ \E t \in DOMAIN tasks : tasks[t].kind = "Generate" /\ Done(t) /\ tasks[t].threw = 1
    /\ \E t \in DOMAIN tasks : tasks[t].kind = "Generate" /\ Done(t) /\ tasks[t].threw = 2

\* C5 (as claimed): the retry happens only for a non-primary selection; a
\* Generate task that read Gemini Pro as its model never makes a second call.
C5_NoRetryForPrimary ==
    \A t \in DOMAIN tasks :
        tasks[t].kind = "Generate" =>
            /\ tasks[t].calls = 2 => tasks[t].model_used # GeminiPro
            /\ tasks[t].model_used = GeminiPro => tasks[t].calls <= 1

\* C5 (amended): the retry is taken whenever the first attempt throws, whatever
\* the model: a Generate task that read Gemini Pro and whose first call threw
\* has, once past the retry, made exactly two calls; a task that read another
\* model makes no provider call and nothing of it throws.
C5_RetryWheneverFirstAttemptThrows ==
    \A t \in DOMAIN tasks :
        (tasks[t].kind = "Generate" /\ tasks[t].pc \in {"fallback", "finally", "done"}) =>
            /\ (tasks[t].model_used = GeminiPro /\ tasks[t].threw >= 1
                    /\ tasks[t].pc # "fallback") => tasks[t].calls = 2
            /\ tasks[t].pc = "fallback" => (tasks[t].calls = 1 /\ tasks[t].threw = 1)
            /\ tasks[t].model_used # GeminiPro => (tasks[t].calls = 0 /\ tasks[t].threw = 0)

\* a task with Gemini Pro selected has failed after two calls, and a task with
\* another model selected has ended without any call
C5_Witness ==
    /\ \E t \in DOMAIN tasks :
         /\ tasks[t].kind = "Generate" /\ Done(t) /\ tasks[t].model_used = GeminiPro
         /\ tasks[t].status = "Failed" /\ tasks[t].calls = 2
    /\ \E t \in DOMAIN tasks :
         /\ tasks[t].kind = "Generate" /\ Done(t) /\ tasks[t].model_used # GeminiPro
         /\ tasks[t].calls = 0

ValidationMessages == {"Query too short (minimum 10 characters)",
                       "Query too long (maximum 5000 characters)",
                       "Query contains sensitive keywords"}

\* C9: a step in which a validation message comes up (validate_input failed in
\* safe_generate_content) submits no task, adds nothing to running_tasks, leaves
\* the generate button and the entry's read-only flag as they were, and emits
\* no notification.
C9_ValidationFailureChangesNothing ==
    [][(shown' \in ValidationMessages /\ shown' # shown) =>
          /\ tasks' = tasks
          /\ running_tasks' = running_tasks
          /\ generate_btn' = generate_btn
          /\ readOnly' = readOnly
          /\ events' = events]_vars

\* the sensitive prompt was turned away: nothing submitted, controls untouched
C9_Witness ==
    /\ shown = "Query contains sensitive keywords"
    /\ tasks = <<>>
    /\ running_tasks = <<>>
    /\ generate_btn
    /\ ~readOnly

(***************************************************************************)
(* Properties of command execution and of the output queue                 *)
(***************************************************************************)
\* C2 (as claimed): the line-reading loop of execute_safe_command never runs
\* on the UI thread, so whenever a child process is running the UI thread is
\* in its event loop, free to run slots and the queue timer.
C2_CommandRunsOffUiThread ==
    /\ ui.pc \notin {"poll", "readline"}
    /\ proc.status = "running" => UiIdle

IsPrefix(a, b) == Len(a) <= Len(b) /\ SubSeq(b, 1, Len(a)) = a

\* lines of one producer stand in the order it produced them, none twice
PerProducerOrder(lines) ==
    \A i, j \in DOMAIN lines :
        (i < j /\ lines[i].src = lines[j].src) => lines[i].n < lines[j].n

\* C10: every step keeps what was shown and what is queued, in that order, as
\* the beginning of what is shown and queued after it, and what was shown as
\* the beginning of what is shown: a line put on the queue is appended to the
\* terminal once, after all lines put before it, whatever the ticks; so the
\* lines of one producer are shown in the order it put them.
C10_QueueIsFifo ==
    [][/\ IsPrefix(terminal \o queue, terminal' \o queue')
       /\ IsPrefix(terminal, terminal')
       /\ PerProducerOrder(terminal')]_vars

\* the echo line and two output lines of one command are on the terminal in
\* that order, with a line of another producer, and the queue is drained
C10_Witness ==
    /\ queue = <<>>
    /\ \E i, j, k \in DOMAIN terminal :
         /\ i < j /\ j < k
         /\ terminal[i].src = 1 /\ terminal[j].src = 1 /\ terminal[k].src = 1
         /\ terminal[i].n = 0 /\ terminal[j].n = 1 /\ terminal[k].n = 2
    /\ \E i \in DOMAIN terminal : terminal[i].src = 0

\* one of the five strings stands somewhere in the command, letter for letter
OnDenylist(command) ==
    \E d \in { <<"r","m"," ">>, <<"d","e","l"," ">>, <<"f","o","r","m","a","t"," ">>,
               <<"c","h","m","o","d">>, <<"s","u","d","o">> } :
        \E i \in DOMAIN command :
            /\ i + Len(d) - 1 <= Len(command)
            /\ SubSeq(command, i, i + Len(d) - 1) = d

\* C8: a step of the UI thread through the call of execute_safe_command with a command holding one of the
\* a command holding one of the denylist strings raises SecurityError and
\* leaves the queue, the terminal, the files and the child processes as they
\* were; one with any other command raises nothing, puts the echo line of the
\* command on the queue and spawns one child process.
C8_GateRejectsWithoutSideEffects ==
    [][(ui.pc = "call" /\ ui'.pc # "call") =>
         IF OnDenylist(ui.cmd)
         THEN /\ raised' = "SecurityError"
              /\ UNCHANGED <<queue, terminal, files, proc, spawned>>
         ELSE /\ raised' = raised
              /\ queue' = Append(queue, [src |-> spawned + 1, n |-> 0,
                                         text |-> <<"$", " ">> \o ui.cmd])
              /\ spawned' = spawned + 1
              /\ proc'.status = "running" /\ proc'.pid = spawned'
              /\ UNCHANGED <<terminal, files>>]_vars

\* a command was rejected: the error is raised, the queue and the terminal
\* are empty and no child process was ever spawned
C8_Witness ==
    /\ raised = "SecurityError"
    /\ queue = <<>>
    /\ terminal = <<>>
    /\ spawned = 0
    /\ proc = NoProc

(***************************************************************************)
(* Properties of validate_input                                            *)
(***************************************************************************)
\* the handler has run on the entry
Clicked == shown # "" \/ tasks # <<>>

\* what the click shows is what validate_input raised
ClickShowsOutcome ==
    Clicked =>
        LET v == validate_input(text_entry)
        IN  IF v.exc = "none" THEN shown = "" /\ Len(tasks) = 1
            ELSE shown = v.msg /\ tasks = <<>>

\* a maximal run of letters, digits and underscores of the prompt is, letter
\* case aside, one of the three words
ContainsSensitiveWord(prompt) ==
    \E i \in DOMAIN prompt :
        /\ IsWordChar(prompt[i])
        /\ i = 1 \/ ~IsWordChar(prompt[i - 1])
        /\ \E n \in {3, 6, 8} :
             /\ i + n - 1 <= Len(prompt)
             /\ i + n - 1 = Len(prompt) \/ ~IsWordChar(prompt[i + n])
             /\ Lower(SubSeq(prompt, i, i + n - 1))
                    \in { <<"k","e","y">>, <<"s","e","c","r","e","t">>,
                          <<"p","a","s","s","w","o","r","d">> }

TrimmedLen == Len(Strip(text_entry))

\* C6 (as claimed): a prompt holding one of the words as a whole word, in any
\* letter case, makes validate_input raise SecurityError whatever its length.
C6_SensitiveWordAlwaysSecurityError ==
    ContainsSensitiveWord(text_entry) =>
        validate_input(text_entry).exc = "SecurityError"

\* C6 (amended): a prompt holding one of the words as a whole word, in any
\* letter case, makes validate_input raise SecurityError when its trimmed
\* length is between 10 and 5000, and ValueError, for its length, when it is
\* not; a click shows the matching message.
C6_SensitiveWordInRangeSecurityError ==
    /\ ContainsSensitiveWord(text_entry) =>
         validate_input(text_entry).exc =
            IF TrimmedLen >= 10 /\ TrimmedLen <= 5000
            THEN "SecurityError" ELSE "ValueError"
    /\ ClickShowsOutcome

\* a click on a prompt of legal length with a word in capitals was turned away
\* for the word
C6_Witness ==
    /\ ContainsSensitiveWord(text_entry)
    /\ ~ContainsSensitiveWord([i \in DOMAIN text_entry |->
                                 IF text_entry[i] \in Range(UpperSeq)
                                 THEN "-" ELSE text_entry[i]])
    /\ TrimmedLen >= 10 /\ TrimmedLen <= 5000
    /\ shown = "Query contains sensitive keywords"
    /\ tasks = <<>>

\* C7: validate_input fails when the trimmed length of the prompt is below 10
\* or above 5000, and passes when it is from 10 to 5000 and the prompt holds
\* none of the words; a passing click submits the task, a failing one does not.
C7_LengthBoundsDecide ==
    /\ (TrimmedLen < 10 \/ TrimmedLen > 5000) =>
            validate_input(text_entry).exc # "none"
    /\ (TrimmedLen >= 10 /\ TrimmedLen <= 5000
            /\ ~ContainsSensitiveWord(text_entry)) =>
            validate_input(text_entry).exc = "none"
    /\ Clicked => (tasks # <<>> <=> validate_input(text_entry).exc = "none")

\* a padded prompt of exactly 5000 characters after trimming, longer as typed,
\* went through
C7_Witness ==
    /\ TrimmedLen = 5000
    /\ Len(text_entry) > 5000
    /\ ~ContainsSensitiveWord(text_entry)
    /\ Len(tasks) = 1
    /\ shown = ""

(***************************************************************************)
(* Properties of process_code_blocks                                       *)
(***************************************************************************)
\* the places of the document where the wrapper token stands, in any case
WrapperTokens(doc) ==
    LET low == Lower(doc)
    IN  {i \in DOMAIN doc : OccursAt(<<"<","h","t","m","l">>, low, i)}

\* C11 (as claimed): whatever html, css and javascript fragments were
\* extracted, the document put into the live preview holds the wrapper token
\* at most once.
C11_AtMostOneWrapper == Cardinality(WrapperTokens(live_preview)) <= 1

\* the lines of the producer src among lines, in their order
LinesOf(lines, src) ==
    LET From(e) == e.src = src
    IN  SelectSeq(lines, From)

\* C12 (as claimed): when execute_safe_command returns, its loop having seen
\* the child exited, the echo line and every line the child wrote stand on the
\* queue or the terminal, once each and in the order written.
C12_NoChildLineLost ==
    [][(ui.pc = "poll" /\ ui'.pc # "poll" /\ proc.status = "exited") =>
          LET mine == LinesOf(terminal' \o queue', proc.pid)
          IN  /\ Len(mine) = proc.written + 1
              /\ \A i \in DOMAIN mine : mine[i].n = i - 1]_vars

\* a fenced block in ruby stands in the text
HasRubyBlock(text) == Contains(text, Fence \o <<"r","u","b","y">>)

\* C13 (as claimed): when process_code_blocks has run on a text with a fenced
\* ruby block, which extract_code_blocks does not return, the block is in the
\* file code_1.ruby and a line RUBY file created with the path of the file is
\* on the queue.
C13_ForeignBlockWrittenRaw ==
    [][(anims # <<>> /\ anims' = <<>> /\ HasRubyBlock(anims[1])) =>
          LET path == DesktopPath \o <<"/","c","o","d","e","_","1",".","r","u","b","y">>
          IN  /\ path \in DOMAIN files'
              /\ \E i \in DOMAIN queue' :
                    queue'[i].text =
                        <<"R","U","B","Y"," ","f","i","l","e"," ","c","r","e","a","t","e","d",":"," ">>
                        \o path]_vars

(***************************************************************************)
(* Properties of the Generate controls                                     *)
(***************************************************************************)
GenerateTasks == {t \in DOMAIN tasks : tasks[t].kind = "Generate"}

\* the Generate tasks submitted whose ui_update signal toggle_ui_state has not
\* handled yet
InFlight ==
    {t \in GenerateTasks :
        \/ ~Done(t)
        \/ \E i \in DOMAIN events :
              events[i].sig = "ui_update" /\ events[i].task = t}

\* C14: after every step at most one Generate task is in flight, and while one
\* is, the generate button is disabled and the entry read-only; a step taken
\* with a task in flight submits no Generate task and leaves the text of the
\* entry as it is; and the prompt a worker has read is the stripped text of
\* the entry, which passes validate_input.
C14_OneGenerateInFlight ==
    [][/\ Cardinality(InFlight') <= 1
       /\ InFlight' # {} => (~generate_btn' /\ readOnly')
       /\ InFlight # {} => (text_entry' = text_entry /\ GenerateTasks' = GenerateTasks)
       /\ \A t \in InFlight' :
             tasks'[t].pc # "pending" =>
                /\ tasks'[t].prompt = Strip(text_entry')
                /\ validate_input(text_entry').exc = "none"
       /\ \A t \in GenerateTasks' :
             tasks'[t].pc # "pending" => validate_input(tasks'[t].prompt).exc = "none"]_vars

\* a second Generate task was submitted after the first was given back: the
\* first has ended and its ui_update is handled, the second is with its worker,
\* which has read the prompt of the entry, and the controls are disabled
C14_Witness ==
    /\ Len(tasks) = 2
    /\ GenerateTasks = {1, 2}
    /\ InFlight = {2}
    /\ tasks[2].pc = "running"
    /\ tasks[2].prompt = PValid
    /\ tasks[2].prompt = Strip(text_entry)
    /\ ~generate_btn /\ readOnly

====
